---- MODULE Spec2Model ----
(***************************************************************************)
(* Barycentric Lagrange interpolation kernel of the Parks-McClellan        *)
(* exchange (src/src/barycentric.cpp, arbitrary-precision entry points).   *)
(*                                                                         *)
(* Numbers.  An mpreal is modelled by its value: a pair <<n, d>>.          *)
(*   d > 0, n # 0, gcd(n, d) = 1   the rational n/d                        *)
(*   <<0, 1>>, <<0, -1>>           +0 and -0                               *)
(*   <<1, 0>>, <<-1, 0>>           +Inf and -Inf                           *)
(*   <<0, 0>>                      NaN                                     *)
(* Arithmetic is exact (no rounding to the ambient bit width); the ambient *)
(* precision itself is the variable prec, which every entry point saves,   *)
(* sets and restores.                                                      *)
(***************************************************************************)
EXTENDS Integers, Sequences, FiniteSets

VARIABLES
  prec,        \* mpreal's ambient default precision (process-wide)
  callerPrec,  \* the ambient precision the caller runs with
  stack,       \* call stack of entry points, innermost last
  x,           \* reference node set
  bands,       \* band model
  w,           \* the caller's weight vector
  lw,          \* the weight vector local to the node-only computeDelta
  delta,       \* the caller's delta
  C,           \* the caller's response vector
  omega,       \* query point of the current (or last) call
  result,      \* Pc / error output of the current (or last) call
  look,        \* D and W outputs of the ideal-response lookup
  last,        \* the current (or last) top-level call: [fn, prec]
  step,        \* barycentricWeights' local step of its last run
  visits       \* per node, the indices k whose factor was multiplied, in order

vars == <<prec, callerPrec, stack, x, bands, w, lw, delta, C, omega, result,
          look, last, step, visits>>

---------------------------------------------------------------------------
(* Bounds of the model and constants of the program *)

MaxLen == 3

MaxNodes == 33

DefaultPrec == 165

GroupSize == 15

Precs == {64, DefaultPrec}

---------------------------------------------------------------------------
(* mpreal values and arithmetic *)

Abs(n) == IF n < 0 THEN -n ELSE n

Sgn(n) == IF n < 0 THEN -1 ELSE IF n > 0 THEN 1 ELSE 0

RECURSIVE Gcd(_, _)
Gcd(a, b) == IF b = 0 THEN a ELSE Gcd(b, a % b)

Rat(n, d) ==
  IF n = 0 THEN <<0, 1>>
  ELSE LET g == Gcd(Abs(n), Abs(d))
       IN <<(Sgn(d) * n) \div g, Abs(d) \div g>>

NaN == <<0, 0>>
PosZero == <<0, 1>>
One == <<1, 1>>
Two == <<2, 1>>
MinusOne == <<-1, 1>>

IsNaN(a) == a[1] = 0 /\ a[2] = 0
IsInf(a) == a[1] # 0 /\ a[2] = 0
IsZero(a) == a[1] = 0 /\ a[2] # 0
IsRegular(a) == a[1] # 0 /\ a[2] # 0
SignOf(a) == IF a[1] # 0 THEN Sgn(a[1]) ELSE a[2]
Inf(s) == <<s, 0>>
Zero(s) == <<0, s>>

Neg(a) == IF IsZero(a) THEN <<0, -a[2]>> ELSE <<-a[1], a[2]>>

Mul(a, b) ==
  LET s == SignOf(a) * SignOf(b) IN
  IF IsNaN(a) \/ IsNaN(b) THEN NaN
  ELSE IF (IsInf(a) /\ IsZero(b)) \/ (IsZero(a) /\ IsInf(b)) THEN NaN
  ELSE IF IsInf(a) \/ IsInf(b) THEN Inf(s)
  ELSE IF IsZero(a) \/ IsZero(b) THEN Zero(s)
  ELSE Rat(a[1] * b[1], a[2] * b[2])

Div(a, b) ==
  LET s == SignOf(a) * SignOf(b) IN
  IF IsNaN(a) \/ IsNaN(b) THEN NaN
  ELSE IF (IsInf(a) /\ IsInf(b)) \/ (IsZero(a) /\ IsZero(b)) THEN NaN
  ELSE IF IsInf(a) \/ IsZero(b) THEN Inf(s)
  ELSE IF IsInf(b) \/ IsZero(a) THEN Zero(s)
  ELSE Rat(a[1] * b[2], a[2] * b[1])

Add(a, b) ==
  IF IsNaN(a) \/ IsNaN(b) THEN NaN
  ELSE IF IsInf(a) /\ IsInf(b) THEN (IF a = b THEN a ELSE NaN)
  ELSE IF IsInf(a) THEN a
  ELSE IF IsInf(b) THEN b
  ELSE IF IsZero(a) /\ IsZero(b) THEN (IF a = b THEN a ELSE PosZero)
  ELSE IF IsZero(a) THEN b
  ELSE IF IsZero(b) THEN a
  ELSE Rat(a[1] * b[2] + b[1] * a[2], a[2] * b[2])

Sub(a, b) == Add(a, Neg(b))

Fma(a, b, c) == Add(Mul(a, b), c)

Shl1(a) == Mul(a, Two)

\* operator== of mpreal: NaN equals nothing, +0 equals -0
MEq(a, b) ==
  /\ ~IsNaN(a)
  /\ ~IsNaN(b)
  /\ (a = b \/ (IsZero(a) /\ IsZero(b)))

\* operator<= of mpreal
MLeq(a, b) ==
  /\ ~IsNaN(a)
  /\ ~IsNaN(b)
  /\ \/ MEq(a, b)
     \/ (IsInf(a) /\ a[1] < 0)
     \/ (IsInf(b) /\ b[1] > 0)
     \/ /\ ~IsInf(a)
        /\ ~IsInf(b)
        /\ a[1] * Abs(b[2]) <= b[1] * Abs(a[2])

Zeros(n) == [i \in 1..n |-> PosZero]

---------------------------------------------------------------------------
(* Inputs: coordinates, node sets, band models *)

Coords == {<<-1, 1>>, <<0, 1>>, <<1, 2>>, <<1, 1>>}

Queries == Coords \cup {<<-1, 2>>, <<1, 4>>}

Monotone(s) ==
  \/ \A i \in 1..(Len(s) - 1) : ~MLeq(s[i + 1], s[i])
  \/ \A i \in 1..(Len(s) - 1) : ~MLeq(s[i], s[i + 1])

\* ordered reference sets of distinct nodes, length 2..MaxLen
NodeSets ==
  {s \in UNION {[1..n -> Coords] : n \in 2..MaxLen} : Monotone(s)}

\* longer reference sets, for which only the order of the factors is recorded
LongNodeSets == {[k \in 1..n |-> <<k, 1>>] : n \in (MaxLen + 1)..MaxNodes}

\* A band: bounds, and amplitude and weight functions of position, here
\* c0 + c1 * x; space is handed to both functions as the code does.
Affine(f, space, xVal) == Add(f.c0, Mul(f.c1, xVal))

Const(v) == [c0 |-> v, c1 |-> PosZero]

\* two bands sharing the boundary 0
BandsAdjacent ==
  << [start |-> <<-1, 1>>, stop |-> <<0, 1>>, space |-> "CHEBY",
      amplitude |-> Const(One), weight |-> Const(One)],
     [start |-> <<0, 1>>, stop |-> <<1, 1>>, space |-> "CHEBY",
      amplitude |-> Const(PosZero), weight |-> Const(Two)] >>

\* pass band and stop band with a transition gap (-1/2, 1/2) between them
BandsGap ==
  << [start |-> <<-1, 1>>, stop |-> <<-1, 2>>, space |-> "CHEBY",
      amplitude |-> Const(One), weight |-> [c0 |-> Two, c1 |-> One]],
     [start |-> <<1, 2>>, stop |-> <<1, 1>>, space |-> "CHEBY",
      amplitude |-> [c0 |-> PosZero, c1 |-> One], weight |-> Const(One)] >>

BandModels == {BandsAdjacent, BandsGap}

---------------------------------------------------------------------------
(* computeIdealResponseAndWeight, barycentric.cpp:25-36 *)

InBand(xVal, b) == MLeq(b.start, xVal) /\ MLeq(xVal, b.stop)

RECURSIVE BandScan(_, _, _, _, _)
BandScan(k, D, W, xVal, bs) ==
  IF k > Len(bs) THEN [D |-> D, W |-> W]
  ELSE IF InBand(xVal, bs[k])
       THEN [D |-> Affine(bs[k].amplitude, bs[k].space, xVal),
             W |-> Affine(bs[k].weight, bs[k].space, xVal)]
       ELSE BandScan(k + 1, D, W, xVal, bs)

RECURSIVE BandScanLast(_, _, _, _, _)
BandScanLast(k, D, W, xVal, bs) ==
  IF k > Len(bs) THEN [D |-> D, W |-> W]
  ELSE IF InBand(xVal, bs[k])
       THEN BandScanLast(k + 1, Affine(bs[k].amplitude, bs[k].space, xVal),
                         Affine(bs[k].weight, bs[k].space, xVal), xVal, bs)
       ELSE BandScanLast(k + 1, D, W, xVal, bs)

\* the scan without the return at the first match: the last match wins
computeIdealResponseAndWeightNoReturn(D, W, xVal, bs) ==
  BandScanLast(1, D, W, xVal, bs)

computeIdealResponseAndWeight(D, W, xVal, bs) == BandScan(1, D, W, xVal, bs)

---------------------------------------------------------------------------
(* barycentricWeights, barycentric.cpp:3-23.  Indices i, j, k are the      *)
(* code's zero-based indices; x[k + 1] is the code's x[k].                 *)

\* ceil(a / b) for a >= 0, b > 0
CeilDiv(a, b) == (a + b - 1) \div b

StepCeil(n) == CeilDiv(n - 2, GroupSize)

Step(n) == (n - 2) \div GroupSize + 1

NextKOne(k, st) == k + 1

NextK(k, st) == k + st

\* for (k = j; k < n; k += step) if (k != i) ...
RECURSIVE InnerLoop(_, _, _, _, _)
InnerLoop(k, n, i, st, acc) ==
  IF k >= n THEN acc
  ELSE InnerLoop(NextK(k, st), n, i, st,
                 IF k # i THEN Append(acc, k) ELSE acc)

\* for (j = 0; j < step; ++j)
RECURSIVE OuterLoop(_, _, _, _, _)
OuterLoop(j, n, i, st, acc) ==
  IF j >= st THEN acc
  ELSE OuterLoop(j + 1, n, i, st, InnerLoop(j, n, i, st, acc))

\* the indices k whose factor is multiplied into denom, in the code's order
StrideOrder(n, i) == OuterLoop(0, n, i, Step(n), <<>>)

\* denom *= ((xi - x[k]) << 1), over the indices of order from position p on
RECURSIVE DenomProduct(_, _, _, _, _)
DenomProduct(order, p, xs, i, denom) ==
  IF p > Len(order) THEN denom
  ELSE DenomProduct(order, p + 1, xs, i,
                    Mul(denom, Shl1(Sub(xs[i + 1], xs[order[p] + 1]))))

barycentricWeights(xs) ==
  [i1 \in 1..Len(xs) |->
     Div(One, DenomProduct(StrideOrder(Len(xs), i1 - 1), 1, xs, i1 - 1, One))]

Visits(xs) == [i1 \in 1..Len(xs) |-> StrideOrder(Len(xs), i1 - 1)]

---------------------------------------------------------------------------
(* computeDelta, barycentric.cpp:38-84 (both overloads run the same loop) *)

deltaTermOdd(i, buffer) == IF i % 2 # 0 THEN Neg(buffer) ELSE buffer

\* if (i % 2 == 0) buffer = -buffer;
deltaTerm(i, buffer) == IF i % 2 = 0 THEN Neg(buffer) ELSE buffer

RECURSIVE computeDeltaLoop(_, _, _, _, _, _, _, _)
computeDeltaLoop(i, num, denom, D, W, ws, xs, bs) ==
  IF i >= Len(ws) THEN Div(num, denom)
  ELSE LET dw == computeIdealResponseAndWeight(D, W, xs[i + 1], bs)
           buffer == Div(ws[i + 1], dw.W)
       IN computeDeltaLoop(i + 1, Fma(ws[i + 1], dw.D, num),
                           Add(denom, deltaTerm(i, buffer)),
                           dw.D, dw.W, ws, xs, bs)

computeDelta(ws, xs, bs) ==
  computeDeltaLoop(0, PosZero, PosZero, PosZero, PosZero, ws, xs, bs)

---------------------------------------------------------------------------
(* computeC, barycentric.cpp:86-102 *)

flipWEven(i, W) == IF i % 2 = 0 THEN Neg(W) ELSE W

\* if (i % 2 != 0) W = -W;
flipW(i, W) == IF i % 2 # 0 THEN Neg(W) ELSE W

RECURSIVE computeCLoop(_, _, _, _, _, _, _)
computeCLoop(i, D, W, Cs, dlt, xs, bs) ==
  IF i >= Len(xs) THEN Cs
  ELSE LET dw == computeIdealResponseAndWeight(D, W, xs[i + 1], bs)
           Wf == flipW(i, dw.W)
       IN computeCLoop(i + 1, dw.D, Wf,
                       [Cs EXCEPT ![i + 1] = Add(dw.D, Div(dlt, Wf))],
                       dlt, xs, bs)

computeC(Cs, dlt, xs, bs) == computeCLoop(0, PosZero, PosZero, Cs, dlt, xs, bs)

---------------------------------------------------------------------------
(* computeApprox, barycentric.cpp:104-129 *)

RECURSIVE computeApproxLoop(_, _, _, _, _, _, _)
computeApproxLoop(i, Pc, num, denom, xs, Cs, ws) ==
  IF i >= Len(xs) THEN [Pc |-> Div(num, denom), early |-> FALSE]
  ELSE IF MEq(Pc, xs[i + 1]) THEN [Pc |-> Cs[i + 1], early |-> TRUE]
  ELSE LET buff == Div(ws[i + 1], Sub(Pc, xs[i + 1]))
       IN computeApproxLoop(i + 1, Pc, Fma(buff, Cs[i + 1], num),
                            Add(denom, buff), xs, Cs, ws)

RECURSIVE quotientLoop(_, _, _, _, _, _, _)
quotientLoop(i, Pc, num, denom, xs, Cs, ws) ==
  IF i >= Len(xs) THEN [Pc |-> Div(num, denom), early |-> FALSE]
  ELSE LET buff == Div(ws[i + 1], Sub(Pc, xs[i + 1]))
       IN quotientLoop(i + 1, Pc, Fma(buff, Cs[i + 1], num),
                       Add(denom, buff), xs, Cs, ws)

\* the evaluator without its exact-match branch
computeApproxNoShortcut(om, xs, Cs, ws) ==
  quotientLoop(0, om, PosZero, PosZero, xs, Cs, ws)

computeApprox(om, xs, Cs, ws) ==
  computeApproxLoop(0, om, PosZero, PosZero, xs, Cs, ws)

---------------------------------------------------------------------------
(* computeError, barycentric.cpp:131-157 *)

nodeErrorSwapped(i, dlt) == IF i % 2 = 0 THEN Neg(dlt) ELSE dlt

nodeErrorUnsigned(i, dlt) == dlt

\* if (i % 2 == 0) error = delta; else error = -delta;
nodeError(i, dlt) == IF i % 2 = 0 THEN dlt ELSE Neg(dlt)

\* the loop over the reference nodes, lines 139-148
RECURSIVE computeErrorScan(_, _, _, _)
computeErrorScan(i, xVal, dlt, xs) ==
  IF i >= Len(xs) THEN [found |-> FALSE, error |-> PosZero]
  ELSE IF MEq(xVal, xs[i + 1])
       THEN [found |-> TRUE, error |-> nodeError(i, dlt)]
       ELSE computeErrorScan(i + 1, xVal, dlt, xs)

\* error -= D; error *= W;  with D, W looked up at xVal (lines 150-155)
computeErrorTail(approx, xVal, bs) ==
  LET dw == computeIdealResponseAndWeight(PosZero, PosZero, xVal, bs)
  IN Mul(Sub(approx, dw.D), dw.W)

---------------------------------------------------------------------------
(* The state machine: a single thread calling the entry points.  A frame   *)
(* holds the entry point, where it stands, the precision it saved          *)
(* (prevPrec) and the precision it was called with (reqPrec).              *)

NoCall == [fn |-> "none", prec |-> 0]

NoLook == [D |-> PosZero, W |-> PosZero]

Idle == stack = <<>>

Top == stack[Len(stack)]

At(fn, pc) == stack # <<>> /\ Top.fn = fn /\ Top.pc = pc

Frame(fn, pc, p) == [fn |-> fn, pc |-> pc, prevPrec |-> prec, reqPrec |-> p]

Goto(pc) == stack' = [stack EXCEPT ![Len(stack)].pc = pc]

\* a call from outside: prevPrec = get_default_prec(); set_default_prec(prec);
\* the call's scalar outputs are fresh objects of the caller
Enter(fn, pc, p, q) ==
  /\ Idle
  /\ stack' = <<Frame(fn, pc, p)>>
  /\ prec' = p
  /\ last' = [fn |-> fn, prec |-> p]
  /\ omega' = q
  /\ result' = PosZero
  /\ look' = NoLook
  /\ lw' = <<>>

\* a call from an entry point at its default precision; the caller resumes at pc
Nested(fn, p, resume) ==
  /\ stack' = Append([stack EXCEPT ![Len(stack)].pc = resume],
                     Frame(fn, "body", p))
  /\ prec' = p

ExitPrecLeakEarly(f) == IF f.pc = "earlyret" THEN prec ELSE f.prevPrec

\* set_default_prec(prevPrec) before a return
ExitPrec(f) == f.prevPrec

Init ==
  /\ callerPrec \in Precs
  /\ prec = callerPrec
  /\ stack = <<>>
  /\ x \in NodeSets
  /\ bands \in BandModels
  /\ w = Zeros(Len(x))
  /\ lw = <<>>
  /\ delta = PosZero
  /\ C = Zeros(Len(x))
  /\ omega = PosZero
  /\ result = PosZero
  /\ look = NoLook
  /\ last = NoCall
  /\ step = 0
  /\ visits = <<>>

\* barycentric.cpp:3-7
CallBarycentricWeights(p) ==
  /\ Enter("barycentricWeights", "body", p, PosZero)
  /\ UNCHANGED <<callerPrec, x, bands, w, delta, C, step, visits>>

\* barycentric.cpp:9-20; the weights go to the vector the caller handed over.
\* Values are computed for node sets of at most MaxLen nodes.
BarycentricWeightsBody ==
  /\ At("barycentricWeights", "body")
  /\ step' = Step(Len(x))
  /\ visits' = Visits(x)
  /\ IF Len(x) > MaxLen THEN UNCHANGED <<w, lw>>
     ELSE IF Len(stack) = 1
          THEN w' = barycentricWeights(x) /\ UNCHANGED lw
          ELSE lw' = barycentricWeights(x) /\ UNCHANGED w
  /\ Goto("ret")
  /\ UNCHANGED <<prec, callerPrec, x, bands, delta, C, omega, result, look, last>>

\* barycentric.cpp:38-42
CallComputeDeltaX(p) ==
  /\ Enter("computeDeltaX", "call", p, PosZero)
  /\ UNCHANGED <<callerPrec, x, bands, w, delta, C, step, visits>>

\* barycentric.cpp:44-45: std::vector w(x.size()); barycentricWeights(w, x);
ComputeDeltaXCallWeights ==
  /\ At("computeDeltaX", "call")
  /\ lw' = Zeros(Len(x))
  /\ Nested("barycentricWeights", DefaultPrec, "body")
  /\ UNCHANGED <<callerPrec, x, bands, w, delta, C, omega, result, look, last,
                 step, visits>>

\* barycentric.cpp:47-59
ComputeDeltaXBody ==
  /\ At("computeDeltaX", "body")
  /\ delta' = computeDelta(lw, x, bands)
  /\ lw' = <<>>
  /\ Goto("ret")
  /\ UNCHANGED <<prec, callerPrec, x, bands, w, C, omega, result, look, last,
                 step, visits>>

\* barycentric.cpp:64-69
CallComputeDeltaW(p) ==
  /\ Enter("computeDeltaW", "body", p, PosZero)
  /\ UNCHANGED <<callerPrec, x, bands, w, delta, C, step, visits>>

\* barycentric.cpp:71-82
ComputeDeltaWBody ==
  /\ At("computeDeltaW", "body")
  /\ delta' = computeDelta(w, x, bands)
  /\ Goto("ret")
  /\ UNCHANGED <<prec, callerPrec, x, bands, w, lw, C, omega, result, look,
                 last, step, visits>>

\* barycentric.cpp:86-91
CallComputeC(p) ==
  /\ Enter("computeC", "body", p, PosZero)
  /\ UNCHANGED <<callerPrec, x, bands, w, delta, C, step, visits>>

\* barycentric.cpp:93-100
ComputeCBody ==
  /\ At("computeC", "body")
  /\ C' = computeC(C, delta, x, bands)
  /\ Goto("ret")
  /\ UNCHANGED <<prec, callerPrec, x, bands, w, lw, delta, omega, result, look,
                 last, step, visits>>

\* barycentric.cpp:104-109
CallComputeApprox(p, q) ==
  /\ Enter("computeApprox", "body", p, q)
  /\ UNCHANGED <<callerPrec, x, bands, w, delta, C, step, visits>>

\* barycentric.cpp:111-127, up to the restore of either exit
ComputeApproxBody ==
  /\ At("computeApprox", "body")
  /\ LET r == computeApprox(omega, x, C, w)
     IN /\ result' = r.Pc
        /\ Goto(IF r.early THEN "earlyret" ELSE "ret")
  /\ UNCHANGED <<prec, callerPrec, x, bands, w, lw, delta, C, omega, look, last,
                 step, visits>>

\* barycentric.cpp:131-137
CallComputeError(p, q) ==
  /\ Enter("computeError", "scan", p, q)
  /\ UNCHANGED <<callerPrec, x, bands, w, delta, C, step, visits>>

\* barycentric.cpp:139-148, up to the restore of the early exit
ComputeErrorScan ==
  /\ At("computeError", "scan")
  /\ LET r == computeErrorScan(0, omega, delta, x)
     IN IF r.found
        THEN result' = r.error /\ Goto("earlyret")
        ELSE UNCHANGED result /\ Goto("call")
  /\ UNCHANGED <<prec, callerPrec, x, bands, w, lw, delta, C, omega, look, last,
                 step, visits>>

\* barycentric.cpp:150-153: computeApprox(error, xVal, x, C, w);
ComputeErrorCallApprox ==
  /\ At("computeError", "call")
  /\ Nested("computeApprox", DefaultPrec, "body")
  /\ UNCHANGED <<callerPrec, x, bands, w, lw, delta, C, omega, result, look,
                 last, step, visits>>

\* barycentric.cpp:154-155
ComputeErrorBody ==
  /\ At("computeError", "body")
  /\ result' = computeErrorTail(result, omega, bands)
  /\ Goto("ret")
  /\ UNCHANGED <<prec, callerPrec, x, bands, w, lw, delta, C, omega, look, last,
                 step, visits>>

\* the restore and return that end each function (lines 22, 61, 83, 101, 128, 156)
Return ==
  /\ stack # <<>>
  /\ Top.pc = "ret"
  /\ prec' = ExitPrec(Top)
  /\ stack' = SubSeq(stack, 1, Len(stack) - 1)
  /\ UNCHANGED <<callerPrec, x, bands, w, lw, delta, C, omega, result, look,
                 last, step, visits>>

\* the restore and return of the exact-match exits (lines 120-121, 145-146)
ReturnEarly ==
  /\ stack # <<>>
  /\ Top.pc = "earlyret"
  /\ prec' = ExitPrec(Top)
  /\ stack' = SubSeq(stack, 1, Len(stack) - 1)
  /\ UNCHANGED <<callerPrec, x, bands, w, lw, delta, C, omega, result, look,
                 last, step, visits>>

\* barycentric.cpp:25-36, called directly; it reads no precision
IdealLookup(q) ==
  /\ Idle
  /\ last' = [fn |-> "computeIdealResponseAndWeight", prec |-> 0]
  /\ omega' = q
  /\ result' = PosZero
  /\ look' = computeIdealResponseAndWeight(PosZero, PosZero, q, bands)
  /\ UNCHANGED <<prec, callerPrec, stack, x, bands, w, lw, delta, C, step,
                 visits>>

Next ==
  \/ \E p \in Precs : CallBarycentricWeights(p)
  \/ BarycentricWeightsBody
  \/ \E p \in Precs : CallComputeDeltaX(p)
  \/ ComputeDeltaXCallWeights
  \/ ComputeDeltaXBody
  \/ \E p \in Precs : CallComputeDeltaW(p)
  \/ ComputeDeltaWBody
  \/ \E p \in Precs : CallComputeC(p)
  \/ ComputeCBody
  \/ \E p \in Precs, q \in Queries : CallComputeApprox(p, q)
  \/ ComputeApproxBody
  \/ \E p \in Precs, q \in Queries : CallComputeError(p, q)
  \/ ComputeErrorScan
  \/ ComputeErrorCallApprox
  \/ ComputeErrorBody
  \/ Return
  \/ ReturnEarly
  \/ \E q \in Queries : IdealLookup(q)

Spec == Init /\ [][Next]_vars

\* The weight computation alone, on reference sets of up to MaxNodes nodes
InitWeights ==
  /\ callerPrec \in Precs
  /\ prec = callerPrec
  /\ stack = <<>>
  /\ x \in NodeSets \cup LongNodeSets
  /\ bands = BandsAdjacent
  /\ w = Zeros(Len(x))
  /\ lw = <<>>
  /\ delta = PosZero
  /\ C = Zeros(Len(x))
  /\ omega = PosZero
  /\ result = PosZero
  /\ look = NoLook
  /\ last = NoCall
  /\ step = 0
  /\ visits = <<>>

NextWeights ==
  \/ \E p \in Precs : CallBarycentricWeights(p)
  \/ BarycentricWeightsBody
  \/ Return

SpecWeights == InitWeights /\ [][NextWeights]_vars

---------------------------------------------------------------------------
(* What the claims speak of *)

\* the entry point fn, called from outside, has computed its result
Done(fn) ==
  \/ Idle /\ last.fn = fn
  \/ stack # <<>> /\ stack[1].fn = fn /\ stack[1].pc \in {"ret", "earlyret"}

\* one-based positions of the reference nodes equal to q
MatchIdx(q) == {i \in 1..Len(x) : MEq(q, x[i])}

EvenIndex(i1) == (i1 - 1) % 2 = 0

SameValue(a, b) == a = b \/ MEq(a, b)

IsFiniteValue(a) == a[2] # 0

RatLeq(a, b) == a[1] * b[2] <= b[1] * a[2]

\* positions of the bands b with b.start <= q <= b.stop
BandIdx(q) ==
  {k \in 1..Len(bands) :
     RatLeq(bands[k].start, q) /\ RatLeq(q, bands[k].stop)}

Least(S) == CHOOSE m \in S : \A n \in S : m <= n

FirstBand(q) == bands[Least(BandIdx(q))]

IdealD(q) == Affine(FirstBand(q).amplitude, FirstBand(q).space, q)

IdealW(q) == Affine(FirstBand(q).weight, FirstBand(q).space, q)

Covered == \A i \in 1..Len(x) : BandIdx(x[i]) # {}

NonzeroWeights == \A i \in 1..Len(x) : ~IsZero(IdealW(x[i]))

RECURSIVE SumSeq(_, _)
SumSeq(s, n) == IF n = 0 THEN PosZero ELSE Add(SumSeq(s, n - 1), s[n])

SignAt(i1) == IF EvenIndex(i1) THEN MinusOne ELSE One

DeltaFormula(ws) ==
  Div(SumSeq([i \in 1..Len(x) |-> Mul(ws[i], IdealD(x[i]))], Len(x)),
      SumSeq([i \in 1..Len(x) |->
                Mul(SignAt(i), Div(ws[i], IdealW(x[i])))], Len(x)))

RECURSIVE StraightProduct(_, _, _)
StraightProduct(xs, i, k) ==
  IF k = 0 THEN One
  ELSE IF k = i THEN StraightProduct(xs, i, k - 1)
  ELSE Mul(StraightProduct(xs, i, k - 1), Mul(Two, Sub(xs[i], xs[k])))

Range(s) == {s[p] : p \in 1..Len(s)}

---------------------------------------------------------------------------
(* The claims *)

\* C1: every entry point restores the ambient precision on every exit path:
\* between calls the ambient precision is the caller's, and inside a call,
\* once a nested call has returned, it is again the precision that the
\* enclosing entry point installed.
C1_PrecisionRestored ==
  IF Idle THEN prec = callerPrec ELSE prec = Top.reqPrec

\* an early exit of computeError, called at a precision other than the caller's
C1_Witness ==
  /\ Idle
  /\ last.fn = "computeError"
  /\ last.prec # callerPrec
  /\ MatchIdx(omega) # {}
  /\ prec = callerPrec

\* C2 as stated: computeError at reference node x[i] returns +delta for odd
\* zero-based i and -delta for even i.
C2_AsStated ==
  Done("computeError") =>
    \A i \in MatchIdx(omega) :
      SameValue(result, IF EvenIndex(i) THEN Neg(delta) ELSE delta)

\* C2 amended: computeError at reference node x[i] returns +delta for even
\* zero-based i and -delta for odd i, through the exact-match exit.
C2_NodeErrorSign ==
  Done("computeError") =>
    \A i \in MatchIdx(omega) :
      /\ result = (IF EvenIndex(i) THEN delta ELSE Neg(delta))
      /\ ~Idle => Top.pc = "earlyret"

C2_Witness ==
  /\ Done("computeError")
  /\ IsRegular(delta)
  /\ \E i \in MatchIdx(omega) : ~EvenIndex(i)

\* C3: computeApprox at reference node x[i] returns C[i] through the
\* exact-match exit, so the quotient num/denom is never formed, whatever was
\* accumulated for the nodes before i.
C3_ApproxAtNode ==
  Done("computeApprox") =>
    \A i \in MatchIdx(omega) :
      /\ result = C[i]
      /\ ~Idle => Top.pc = "earlyret"

C3_Witness ==
  /\ At("computeApprox", "earlyret")
  /\ \E i \in MatchIdx(omega) : i >= 2 /\ IsRegular(C[i]) /\ IsRegular(w[1])

\* C4 as stated: whenever arithmetic is about to run on behalf of a call, in
\* the entry point or in a helper it called, the ambient precision is the
\* precision the outermost entry point was called with.
C4_AsStated ==
  (stack # <<>> /\ Top.pc = "body") => prec = stack[1].reqPrec

\* C5: barycentricWeights multiplies, for node i, the factor of every other
\* index exactly once, in whatever order the groups give, and so
\* w[i] = 1 / prod_{k # i} 2 (x[i] - x[k]).
C5_Weights ==
  (visits # <<>> /\ last.fn = "barycentricWeights") =>
    \A i \in 1..Len(x) :
      /\ Len(visits[i]) = Len(x) - 1
      /\ Range(visits[i]) = (0..(Len(x) - 1)) \ {i - 1}
      /\ Len(x) <= MaxLen => w[i] = Div(One, StraightProduct(x, i, Len(x)))

C5_Witness ==
  /\ Idle
  /\ last.fn = "barycentricWeights"
  /\ visits # <<>>
  /\ step = 3

\* C6: computeDelta returns (sum w[i] D_i) / (sum sign_i w[i] / W_i) with
\* sign_i = -1 for even and +1 for odd zero-based i; the node-only overload
\* does so with the weights barycentricWeights gives for x.
C6_Delta ==
  Covered =>
    /\ Done("computeDeltaW") => delta = DeltaFormula(w)
    /\ Done("computeDeltaX") => delta = DeltaFormula(barycentricWeights(x))

C6_Witness ==
  /\ Done("computeDeltaX")
  /\ Covered
  /\ Len(x) = 3
  /\ IsRegular(delta)

\* C7: computeC sets C[i] = D_i + delta / W_i for even and D_i - delta / W_i
\* for odd zero-based i, with W_i the weight looked up at node i (no flip is
\* carried from the node before).
C7_Response ==
  (Done("computeC") /\ Covered) =>
    \A i \in 1..Len(x) :
      C[i] = (IF EvenIndex(i)
              THEN Add(IdealD(x[i]), Div(delta, IdealW(x[i])))
              ELSE Sub(IdealD(x[i]), Div(delta, IdealW(x[i]))))

C7_Witness ==
  /\ Done("computeC")
  /\ Covered
  /\ Len(x) >= 3
  /\ IsRegular(delta)

\* C8: the lookup returns the amplitude and weight of the first band, in
\* collection order, with start <= x <= stop, both bounds inclusive.
C8_FirstBand ==
  (last.fn = "computeIdealResponseAndWeight" /\ BandIdx(omega) # {}) =>
    look = [D |-> IdealD(omega), W |-> IdealW(omega)]

\* a query on the boundary shared by two bands that differ there
C8_Witness ==
  /\ last.fn = "computeIdealResponseAndWeight"
  /\ Cardinality(BandIdx(omega)) = 2
  /\ \E k \in BandIdx(omega) :
       Affine(bands[k].amplitude, bands[k].space, omega) # IdealD(omega)

\* C9 as stated: the number of groups is ceil((n - 2) / 15).
C9_AsStated ==
  visits # <<>> => step = CeilDiv(Len(x) - 2, GroupSize)

\* C9 amended: the number of groups is floor((n - 2) / 15) + 1, that is
\* ceil((n - 1) / 15).
C9_StepCount ==
  visits # <<>> => step = CeilDiv(Len(x) - 1, GroupSize)

C9_Witness ==
  /\ visits # <<>>
  /\ Len(x) = GroupSize + 2
  /\ step = 2

\* C10: at reference node x[i] the value computeError returns equals
\* (C[i] - D_i) * W_i for C = computeC(delta, x, bands), and the values at
\* x[i] and x[i + 1] are negatives of each other.
C10_ShortcutAgrees ==
  (Done("computeError") /\ Covered /\ NonzeroWeights /\ IsFiniteValue(delta)) =>
    \A i \in MatchIdx(omega) :
      /\ MEq(result,
             Mul(Sub(computeC(Zeros(Len(x)), delta, x, bands)[i], IdealD(x[i])),
                 IdealW(x[i])))
      /\ i < Len(x) =>
           MEq(computeErrorScan(0, x[i + 1], delta, x).error, Neg(result))

C10_Witness ==
  /\ Done("computeError")
  /\ Covered
  /\ NonzeroWeights
  /\ IsRegular(delta)
  /\ \E i \in MatchIdx(omega) : ~EvenIndex(i) /\ i < Len(x)

====
